---- MODULE Spec2Model ----
(***************************************************************************)
(* A model of lzss.c: EncodeLZSS (the eb_ecl.exe LZSS variant: greedy      *)
(* search over the input buffer, flag-grouped tokens, plain and exact      *)
(* padding) and DecodeLZSS (flag reader and circular sliding window).      *)
(* One encoder action is one iteration of the encoder's while loop, one    *)
(* decoder action one iteration of the decoder's while loop.               *)
(***************************************************************************)
EXTENDS Integers, Sequences, FiniteSets, TLC

(***************************************************************************)
(* Program constants                                                       *)
(***************************************************************************)
WINDOW_SIZE == 1023

MAX_UNCODED == 2

MAX_CODED == 61 + MAX_UNCODED + 1

MAX_LENGTH == 63

\* the value DecodeLZSS primes every window slot with
PRIME_BYTE == 17

\* padding is to multiples of 0x10
PAD_UNIT == 16

\* padding_block[i % 0x11]
PAD_BLOCK_LEN == 17

Byte == 0..255

(***************************************************************************)
(* Bounds of the model: the inputs EncodeLZSS is run on                    *)
(***************************************************************************)
\* every sequence over Alphabet up to this length
MaxLen == 7

\* incompressible inputs 0,1,2,... up to this length (all literals)
MaxRamp == 19

\* a run of one byte, long enough for two length-63 matches
RunLen == 200

\* a 3-byte pattern repeated (scenario 3 of the specification)
PeriodLen == 1025

Alphabet == {65, 66}

ShortInputs == UNION {[1..n -> Alphabet] : n \in 0..MaxLen}

Ramp(n) == [i \in 1..n |-> (i - 1) % 256]

RampInputs == {Ramp(n) : n \in 1..MaxRamp}

Run(n, b) == [i \in 1..n |-> b]

Period3(n) == [i \in 1..n |-> 1 + ((i - 1) % 3)]

\* a 3-byte string, a gap of another byte, the string again: the second
\* copy lies gap+3 bytes after the first
Far(gap) == <<7, 8, 9>> \o Run(gap, 65) \o <<7, 8, 9>>

LongInputs ==
    {Run(RunLen, 65), Period3(PeriodLen),
     Far(WINDOW_SIZE - 3), Far(WINDOW_SIZE - 2)}

Inputs == ShortInputs \cup RampInputs \cup LongInputs

(***************************************************************************)
(* C integer operators on the values the program uses                      *)
(***************************************************************************)
RECURSIVE BitOr(_, _)
BitOr(a, b) ==
    IF a = 0 THEN b
    ELSE IF b = 0 THEN a
    ELSE (IF (a % 2 = 1) \/ (b % 2 = 1) THEN 1 ELSE 0)
         + 2 * BitOr(a \div 2, b \div 2)

RECURSIVE BitAnd(_, _)
BitAnd(a, b) ==
    IF a = 0 \/ b = 0 THEN 0
    ELSE (IF (a % 2 = 1) /\ (b % 2 = 1) THEN 1 ELSE 0)
         + 2 * BitAnd(a \div 2, b \div 2)

\* (unsigned char) x
UChar(x) == x % 256

\* C's a % b for b > 0: the sign of the result follows a
CMod(a, b) == IF a >= 0 THEN a % b ELSE 0 - ((0 - a) % b)

VARIABLES
    inputData,      \* the input file read into memory
    dontPad,        \* EncodeLZSS argument
    exactPad,       \* EncodeLZSS argument
    pc,             \* "encode", "encoded", "decode", "done"
    inputPos,       \* encoder: position in inputData
    flags,          \* encoder: flag byte being built
    flagPos,        \* encoder: bit of the next token
    encodedData,    \* encoder: wire bytes of the current group (nextEncoded = Len)
    bestLength,     \* encoder: result of the last search
    bestOffset,     \* encoder: result of the last search
    outFile,        \* encoder: bytes written (compressedSize = Len)
    encTokens,      \* encoder: the tokens emitted so far, in order
    dec             \* DecodeLZSS: its variables, the two global buffers, its files

encVars == <<inputData, dontPad, exactPad, inputPos, flags, flagPos,
             encodedData, bestLength, bestOffset, outFile, encTokens>>

vars == <<encVars, pc, dec>>

(***************************************************************************)
(* EncodeLZSS: the match search (lines 402-470)                            *)
(***************************************************************************)
\* for (matchLen = 0; matchLen < maxCheck; matchLen++) if (differ) break;
\* the value of matchLen after the loop: the first index that differs
CountMatch(data, current, candidate, maxCheck) ==
    LET differ == {j \in 0..(maxCheck - 1) :
                     data[current + j + 1] # data[candidate + j + 1]}
    IN IF differ = {} THEN maxCheck
       ELSE CHOOSE j \in differ : \A k \in differ : j <= k

\* a search that compares up to the end of the input, whatever the offset
MaxCheckRemaining(remaining, searchOffset) == remaining

\* maxCheck = (remaining < searchOffset) ? remaining : searchOffset
MaxCheck(remaining, searchOffset) ==
    IF remaining < searchOffset THEN remaining ELSE searchOffset

\* a search that looks back over the whole input
SearchLimitNoCap(pos) == pos

\* searchLimit = (inputPos <= WINDOW_SIZE) ? inputPos : WINDOW_SIZE
SearchLimit(pos) == IF pos <= WINDOW_SIZE THEN pos ELSE WINDOW_SIZE

\* the first quick rejection: *current != *candidate
RejectFirst(data, current, candidate) ==
    data[current + 1] # data[candidate + 1]

\* a second rejection that looks one byte too far
RejectBestNext(data, current, candidate, best, remaining) ==
    best + 1 < remaining
    /\ data[current + best + 2] # data[candidate + best + 2]

\* the second quick rejection
RejectBest(data, current, candidate, best, remaining) ==
    best < remaining
    /\ data[current + best + 1] # data[candidate + best + 1]

\* an update on >= instead of >
BetterOrEqual(matchLen, best) == matchLen >= best

\* if (matchLen > bestLength): update the best only if strictly better
Better(matchLen, best) == matchLen > best

\* a scan that already stops at a candidate of exactly MAX_LENGTH bytes
ExceedsMaxOrEqual(matchLen) == matchLen >= MAX_LENGTH

\* must the scan stop at this candidate: if (matchLen > MAX_LENGTH)
ExceedsMax(matchLen) == matchLen > MAX_LENGTH

\* the body of the for loop for one searchOffset (lines 419-462), on the
\* loop's state: the best so far and whether the loop has been left
SearchBody(data, pos, searchOffset, st) ==
    IF st.stop THEN st
    ELSE
      LET current == pos
          candidate == pos - searchOffset
          remaining == Len(data) - pos
      IN
      IF RejectFirst(data, current, candidate) THEN st
      ELSE IF RejectBest(data, current, candidate, st.length, remaining) THEN st
      ELSE
        LET maxCheck == MaxCheck(remaining, searchOffset)
            matchLen == CountMatch(data, current, candidate, maxCheck)
            better == Better(matchLen, st.length)
        IN
        IF ExceedsMax(matchLen)
        THEN [length |-> MAX_LENGTH, offset |-> searchOffset, stop |-> TRUE]
        ELSE [length |-> IF better THEN matchLen ELSE st.length,
              offset |-> IF better THEN searchOffset ELSE st.offset,
              stop |-> FALSE]

\* for (searchOffset = lo; searchOffset <= hi; searchOffset++), in order;
\* the range is split in halves to keep the evaluation shallow
RECURSIVE Search(_, _, _, _, _)
Search(data, pos, lo, hi, st) ==
    IF lo > hi \/ st.stop THEN st
    ELSE IF lo = hi THEN SearchBody(data, pos, lo, st)
    ELSE LET mid == (lo + hi) \div 2
         IN Search(data, pos, mid + 1, hi, Search(data, pos, lo, mid, st))

\* bestLength = 2; bestOffset = 0; before the loop (lines 404-405)
SearchStart == [length |-> 2, offset |-> 0, stop |-> FALSE]

\* lines 404-470: bestLength = 2, bestOffset = 0, the search, the final cap
FindBest(data, pos) ==
    LET searchLimit == SearchLimit(pos)
        r == IF searchLimit >= 3
             THEN Search(data, pos, 3, searchLimit, SearchStart)
             ELSE SearchStart
    IN [length |-> IF r.length > MAX_LENGTH THEN MAX_LENGTH ELSE r.length,
        offset |-> r.offset]

\* a test that asks for one byte more
IsMatchLong(best) == best.length > 3 /\ best.offset >= 3

\* if (bestLength >= 3 && bestOffset >= 3)
IsMatch(best) == best.length >= 3 /\ best.offset >= 3

\* the two wire bytes of a match (lines 478-479)
MatchBytes(len, off) ==
    <<UChar(BitOr(off \div 256, len * 4)), UChar(BitAnd(off, 255))>>

(***************************************************************************)
(* EncodeLZSS: flushing the last group and padding (lines 512-562)         *)
(***************************************************************************)
\* int padding_lengths[17]
padding_lengths ==
    <<0, 1, 18, 3, 20, 5, 22, 7, 24, 9, 26, 11, 28, 13, 30, 15, 0>>

\* a table that adds a whole 17-byte block to the even remainders
PaddingLengthBlock(remainder) ==
    IF remainder % 2 = 1 \/ remainder = PAD_UNIT
    THEN padding_lengths[remainder + 1]
    ELSE remainder + PAD_BLOCK_LEN

\* padding_lengths[remainder], remainder in 0..16
PaddingLength(remainder) == padding_lengths[remainder + 1]

\* a padding block without its leading flag byte
PaddingBlockZero(i) == 0

\* char padding_block[17] = {0xFF, 0, ...}
PaddingBlock(i) == IF i = 0 THEN 255 ELSE 0

\* the while loop of lines 522-531 on (flags, flagPos, encodedData)
RECURSIVE PadGroup(_, _, _, _)
PadGroup(size, fl, fp, enc) ==
    IF (size + Len(enc) + 1) % PAD_UNIT # 0 /\ fp # 0
    THEN PadGroup(size, BitOr(fl, fp), fp \div 2, enc \o <<0, 0>>)
    ELSE [flags |-> fl, flagPos |-> fp, encodedData |-> enc]

\* lines 513-540: the pending group after the padding tokens of exact mode,
\* and what is written for it
LastGroup(size, fl, fp, enc, exact) ==
    LET g == IF Len(enc) # 0 /\ exact # 0
                /\ (size + Len(enc) + 1) % PAD_UNIT # 0
             THEN PadGroup(size, fl, fp, enc)
             ELSE [flags |-> fl, flagPos |-> fp, encodedData |-> enc]
    IN [flags |-> g.flags, flagPos |-> g.flagPos,
        encodedData |-> g.encodedData,
        written |-> IF Len(enc) # 0 THEN <<g.flags>> \o g.encodedData
                    ELSE <<>>]

\* lines 545-554: the padding blocks of exact mode
ExactBlocks(size, exact) ==
    IF exact # 0
    THEN LET remainder == PAD_UNIT - (size % PAD_UNIT)
             n == PaddingLength(remainder)
         IN [i \in 1..n |-> PaddingBlock((i - 1) % PAD_BLOCK_LEN)]
    ELSE <<>>

\* padding that writes 0xFF instead of 0x00
ZeroPadFF(size, dont) ==
    IF dont = 0
    THEN [i \in 1..((PAD_UNIT - (size % PAD_UNIT)) % PAD_UNIT) |-> 255]
    ELSE <<>>

\* lines 555-562: zero bytes up to a multiple of 0x10
ZeroPad(size, dont) ==
    IF dont = 0
    THEN [i \in 1..((PAD_UNIT - (size % PAD_UNIT)) % PAD_UNIT) |-> 0]
    ELSE <<>>

(***************************************************************************)
(* DecodeLZSS (lines 583-683)                                              *)
(***************************************************************************)
\* getc's end-of-file value
EOF == -1

WindowIndex == 0..(WINDOW_SIZE - 1)

LookaheadIndex == 0..(MAX_CODED - 1)

\* the globals of a fresh process, and DecodeLZSS's locals before line 591
DecIdle ==
    [inFile |-> <<>>, pos |-> 0, flags |-> 0, flagsUsed |-> 0, nextChar |-> 0,
     slidingWindow |-> [i \in WindowIndex |-> 0],
     uncodedLookahead |-> [i \in LookaheadIndex |-> 0],
     code |-> [offset |-> 0, length |-> 0],
     out |-> <<>>, tokens |-> <<>>, halted |-> FALSE,
     readIdx |-> {}, writeIdx |-> {}, stageIdx |-> {}]

\* lines 591-603 on the file `stream`
DecStart(stream) ==
    [DecIdle EXCEPT !.inFile = stream, !.flags = 0, !.flagsUsed = 7,
                    !.nextChar = 0,
                    !.slidingWindow = [i \in WindowIndex |-> PRIME_BYTE]]

\* getc(inFile) at read position pos
Getc(stream, pos) == IF pos < Len(stream) THEN stream[pos + 1] ELSE EOF

\* line 651: code.offset + ((code.length & 0x03) << 8)
UnpackOffset(b0, b1) == b1 + BitAnd(b0, 3) * 256

\* a decoder that takes the length from the high nibble only
UnpackLengthNibble(b0) == b0 \div 16

\* line 652: code.length >> 2
UnpackLength(b0) == b0 \div 4

\* a source position without the wrap-around branch
SrcPosNoWrap(nextChar, offset, i) == nextChar - offset + i

\* lines 663-667: the source position of the i-th byte of a match
SrcPos(nextChar, offset, i) ==
    IF nextChar >= offset
    THEN nextChar - offset + i
    ELSE WINDOW_SIZE - offset + nextChar + i

\* slidingWindow[idx]; an index outside the array reads whatever lies there
WindowRead(w, idx, junk) == IF idx \in WindowIndex THEN w[idx] ELSE junk

\* a copy in one loop, each byte stored in the window as soon as it is read:
\* a source slot the same token has already stored gives the new byte
StagedInPlace(w, nextChar, offset, length, junk) ==
    LET src(i) == CMod(SrcPos(nextChar, offset, i), WINDOW_SIZE)
        dst(i) == CMod(nextChar + i, WINDOW_SIZE)
        c[i \in 0..(length - 1)] ==
            LET earlier == {j \in 0..(i - 1) : dst(j) = src(i)}
            IN IF earlier = {} THEN WindowRead(w, src(i), junk)
               ELSE c[CHOOSE j \in earlier : TRUE]
    IN c

\* the first loop (lines 660-671): uncodedLookahead[i] =
\* slidingWindow[src_pos % WINDOW_SIZE], all read before the window is stored
Staged(w, nextChar, offset, length, junk) ==
    [i \in 0..(length - 1) |->
        WindowRead(w, CMod(SrcPos(nextChar, offset, i), WINDOW_SIZE), junk)]

\* break: the loop is left, nothing else changes
DecBreak(d, fl, used, pos, code) ==
    [d EXCEPT !.flags = fl, !.flagsUsed = used, !.pos = pos, !.code = code,
              !.halted = TRUE, !.readIdx = {}, !.writeIdx = {}, !.stageIdx = {}]

\* lines 624-633: an uncoded character
DecLiteral(d, fl, used, pos) ==
    LET c == Getc(d.inFile, pos)
    IN IF c = EOF THEN DecBreak(d, fl, used, pos, d.code)
       ELSE [d EXCEPT
               !.flags = fl, !.flagsUsed = used, !.pos = pos + 1,
               !.out = Append(d.out, c),
               !.slidingWindow = [d.slidingWindow EXCEPT ![d.nextChar] = c],
               !.nextChar = CMod(d.nextChar + 1, WINDOW_SIZE),
               !.tokens = Append(d.tokens,
                                 [match |-> FALSE, length |-> 1, offset |-> 0,
                                  bit |-> used, bytes |-> <<c>>,
                                  end |-> pos + 1]),
               !.readIdx = {}, !.writeIdx = {d.nextChar}, !.stageIdx = {}]

\* lines 636-681: an offset and length
DecMatch(d, fl, used, pos, junk) ==
    LET b0 == Getc(d.inFile, pos)
        b1 == Getc(d.inFile, pos + 1)
    IN
    IF b0 = EOF
    THEN DecBreak(d, fl, used, pos, [d.code EXCEPT !.length = EOF])
    ELSE IF b1 = EOF
    THEN DecBreak(d, fl, used, pos + 1, [offset |-> EOF, length |-> b0])
    ELSE
      LET offset == UnpackOffset(b0, b1)
          length == UnpackLength(b0)
          src(i) == CMod(SrcPos(d.nextChar, offset, i), WINDOW_SIZE)
          dst(i) == CMod(d.nextChar + i, WINDOW_SIZE)
          staged == Staged(d.slidingWindow, d.nextChar, offset, length, junk)
          \* length < WINDOW_SIZE: the second loop writes each slot at most once
          rel(k) == (k - d.nextChar) % WINDOW_SIZE
      IN [d EXCEPT
            !.flags = fl, !.flagsUsed = used, !.pos = pos + 2,
            !.code = [offset |-> offset, length |-> length],
            !.out = d.out \o [i \in 1..length |-> staged[i - 1]],
            !.uncodedLookahead =
                [j \in LookaheadIndex |->
                    IF j < length THEN staged[j] ELSE d.uncodedLookahead[j]],
            !.slidingWindow =
                [k \in WindowIndex |->
                    IF rel(k) < length /\ dst(rel(k)) = k
                    THEN staged[rel(k)] ELSE d.slidingWindow[k]],
            !.nextChar = CMod(d.nextChar + length, WINDOW_SIZE),
            !.tokens = Append(d.tokens,
                              [match |-> TRUE, length |-> length,
                               offset |-> offset, bit |-> used,
                               bytes |-> [i \in 1..length |-> staged[i - 1]],
                               end |-> pos + 2]),
            !.readIdx = {src(i) : i \in 0..(length - 1)},
            !.writeIdx = {dst(i) : i \in 0..(length - 1)},
            !.stageIdx = 0..(length - 1)]

\* a decoder that takes the flags from the low bit
IsLiteralBitLow(fl) == BitAnd(fl, 1) = 0

\* is the token of the current flag bit an uncoded character (line 622)
IsLiteralBit(fl) == BitAnd(fl, 128) = 0

\* one iteration of while (TRUE), lines 605-682
DecodeIter(d, junk) ==
    LET fl1 == UChar(d.flags * 2)
        used1 == UChar(d.flagsUsed + 1)
        c == Getc(d.inFile, d.pos)
    IN
    IF used1 = 8 /\ c = EOF
    THEN DecBreak(d, fl1, used1, d.pos, d.code)
    ELSE
      LET fl == IF used1 = 8 THEN BitAnd(c, 255) ELSE fl1
          used == IF used1 = 8 THEN 0 ELSE used1
          pos == IF used1 = 8 THEN d.pos + 1 ELSE d.pos
      IN IF IsLiteralBit(fl)
         THEN DecLiteral(d, fl, used, pos)
         ELSE DecMatch(d, fl, used, pos, junk)

\* did the iteration stay inside slidingWindow and uncodedLookahead
InBounds(d) ==
    /\ d.readIdx \subseteq WindowIndex
    /\ d.writeIdx \subseteq WindowIndex
    /\ d.stageIdx \subseteq LookaheadIndex

(***************************************************************************)
(* State after lines 395-399                                               *)
(***************************************************************************)
EncInit ==
    /\ inputData \in Inputs
    /\ dontPad \in {0, 1}
    /\ exactPad \in {0, 1}
    /\ inputPos = 0
    /\ flags = 0
    /\ flagPos = 128
    /\ encodedData = <<>>
    /\ bestLength = 2
    /\ bestOffset = 0
    /\ outFile = <<>>
    /\ encTokens = <<>>

Init ==
    /\ EncInit
    /\ dec = DecIdle
    /\ pc = "encode"

\* lines 377-380: if (inputSize <= 0) return;
EncodeEmpty ==
    /\ pc = "encode"
    /\ Len(inputData) <= 0
    /\ pc' = "encoded"
    /\ UNCHANGED <<encVars, dec>>

\* one iteration of while (inputPos < inputSize), lines 402-510
EncodeStep ==
    /\ pc = "encode"
    /\ Len(inputData) > 0
    /\ inputPos < Len(inputData)
    /\ LET best == FindBest(inputData, inputPos)
           match == IsMatch(best)
           bytes == IF match THEN MatchBytes(best.length, best.offset)
                    ELSE <<inputData[inputPos + 1]>>
           enc == encodedData \o bytes
           fl == IF match THEN BitOr(flags, flagPos) ELSE flags
       IN
       /\ bestLength' = best.length
       /\ bestOffset' = best.offset
       /\ inputPos' = IF match THEN inputPos + best.length ELSE inputPos + 1
       /\ encTokens' = Append(encTokens,
                              [pos |-> inputPos, match |-> match,
                               length |-> best.length, offset |-> best.offset])
       /\ IF flagPos = 1
          THEN /\ outFile' = outFile \o <<fl>> \o enc
               /\ flags' = 0
               /\ flagPos' = 128
               /\ encodedData' = <<>>
          ELSE /\ outFile' = outFile
               /\ flags' = fl
               /\ flagPos' = flagPos \div 2
               /\ encodedData' = enc
    /\ UNCHANGED <<inputData, dontPad, exactPad, pc, dec>>

\* lines 512-565: the loop has ended
EncodeFinish ==
    /\ pc = "encode"
    /\ Len(inputData) > 0
    /\ inputPos >= Len(inputData)
    /\ LET g == LastGroup(Len(outFile), flags, flagPos, encodedData, exactPad)
           o1 == outFile \o g.written
           o2 == o1 \o ExactBlocks(Len(o1), exactPad)
           o3 == o2 \o ZeroPad(Len(o2), dontPad)
       IN /\ outFile' = o3
          /\ flags' = g.flags
          /\ flagPos' = g.flagPos
          /\ encodedData' = g.encodedData
    /\ pc' = "encoded"
    /\ UNCHANGED <<inputData, dontPad, exactPad, inputPos, bestLength,
                   bestOffset, encTokens, dec>>

\* DecodeLZSS is called on the first n bytes of the encoder's output
DecodeOpen(n) ==
    /\ pc = "encoded"
    /\ dec' = DecStart(SubSeq(outFile, 1, n))
    /\ pc' = "decode"
    /\ UNCHANGED encVars

\* DecodeLZSS on the whole file
DecodeWhole == DecodeOpen(Len(outFile))

\* one iteration of the decoder's loop; the loop is left on a break
DecodeStep ==
    /\ pc = "decode"
    /\ ~dec.halted
    /\ LET d0 == DecodeIter(dec, 0)
       IN IF InBounds(d0)
          THEN dec' = d0
          ELSE \E junk \in Byte : dec' = DecodeIter(dec, junk)
    /\ pc' = IF dec'.halted THEN "done" ELSE "decode"
    /\ UNCHANGED encVars

Next == EncodeEmpty \/ EncodeStep \/ EncodeFinish \/ DecodeWhole \/ DecodeStep

Spec == Init /\ [][Next]_vars

(***************************************************************************)
(* DecodeLZSS alone, on arbitrary and on truncated streams                 *)
(***************************************************************************)
\* the longest stream
MaxStream == 4

\* flag bytes and wire bytes: as flags 0x60 and 0xFF select matches, 0x00
\* literals; as first bytes 0x00, 0x0C, 0x60 and 0xFF give lengths 0, 3, 24
\* and 63; as second bytes they give offsets 0, 12, 96 and (after 0xFF)
\* 1023: sources in slots not yet written, sources that wrap around the
\* end of the window, and lengths above the distance
StreamBytes == {0, 12, 96, 255}

ShortStreams == UNION {[1..n -> StreamBytes] : n \in 0..MaxStream}

\* a stream of WrapGroups groups, each a literal 0 followed by 7 matches of
\* length 63 and distance 12 (wire bytes 0xFC 0x0C) under the flag byte
\* 0x7F: the output passes the end of the window
WrapGroups == 3

WrapStream ==
    [i \in 1..(16 * WrapGroups) |->
        IF i % 16 = 1 THEN 127
        ELSE IF i % 16 = 2 THEN 0
        ELSE IF i % 2 = 1 THEN 252 ELSE 12]

Streams == ShortStreams \cup {WrapStream}

InitDec ==
    /\ inputData = <<>>
    /\ dontPad = 1
    /\ exactPad = 0
    /\ inputPos = 0
    /\ flags = 0
    /\ flagPos = 128
    /\ encodedData = <<>>
    /\ bestLength = 2
    /\ bestOffset = 0
    /\ encTokens = <<>>
    /\ outFile \in Streams
    /\ dec = DecIdle
    /\ pc = "encoded"

\* DecodeLZSS on a prefix of the file, cut at any byte
DecodeTruncated == \E n \in 0..Len(outFile) : DecodeOpen(n)

NextDec == DecodeTruncated \/ DecodeStep

SpecDec == InitDec /\ [][NextDec]_vars

(***************************************************************************)
(* Properties                                                              *)
(***************************************************************************)
Zeros(n) == [i \in 1..n |-> 0]

EncTokenIndex == 1..Len(encTokens)

DecTokenIndex == 1..Len(dec.tokens)

\* C1: round trip without padding. When DecodeLZSS has run on the output
\* of EncodeLZSS with dontPad = 1 and exactPad = 0, its output is the input,
\* byte for byte, the empty input included.
C1_RoundTripNoPad ==
    (pc = "done" /\ dontPad = 1 /\ exactPad = 0) => dec.out = inputData

\* a round trip of an input longer than the window with a match at the
\* largest distance
C1_Witness ==
    /\ pc = "done" /\ dontPad = 1 /\ exactPad = 0
    /\ Len(inputData) > WINDOW_SIZE
    /\ \E i \in EncTokenIndex :
          encTokens[i].match /\ encTokens[i].offset = WINDOW_SIZE
    /\ dec.out = inputData

\* C2 as stated: in both padding modes (plain zero padding, and exact
\* padding) decoding the whole padded output yields exactly the input.
C2_PaddingInvisible ==
    (pc = "done" /\ ((dontPad = 0 /\ exactPad = 0) \/ exactPad = 1))
        => dec.out = inputData

\* C2 amended: with exact padding the decoded output is exactly the input;
\* with plain zero padding it is the input followed by fewer than 16 zero
\* bytes (padding bytes are decoded as literals): the bytes of the input
\* are never removed or changed.
C2_PaddingKeepsInput ==
    pc = "done" =>
        /\ exactPad = 1 => dec.out = inputData
        /\ (dontPad = 0 /\ exactPad = 0) =>
              \E k \in 0..(PAD_UNIT - 1) : dec.out = inputData \o Zeros(k)

\* plain padding has added zero bytes to the decoded output
C2_Witness ==
    /\ pc = "done" /\ dontPad = 0 /\ exactPad = 0
    /\ Len(dec.out) > Len(inputData)
    /\ \E i \in EncTokenIndex : encTokens[i].match

\* C3: exact-padding round trip. For a non-empty input and exactPad = 1,
\* with either dontPad, decoding the whole output yields exactly the input:
\* the decoder reads every byte, and every token it decodes after the
\* encoder's own tokens (the padding tokens inside the last group and those
\* of the 0xFF-led blocks) is a match of length 0 that emits nothing.
C3_ExactRoundTrip ==
    (pc = "done" /\ exactPad = 1 /\ Len(inputData) > 0) =>
        /\ dec.out = inputData
        /\ dec.pos = Len(outFile)
        /\ Len(dec.tokens) >= Len(encTokens)
        /\ \A i \in DecTokenIndex :
              i > Len(encTokens) =>
                 /\ dec.tokens[i].match
                 /\ dec.tokens[i].length = 0
                 /\ dec.tokens[i].bytes = <<>>

\* padding tokens inside the last group, a whole padding block, and more
C3_Witness ==
    /\ pc = "done" /\ exactPad = 1 /\ Len(inputData) > 0
    /\ Len(encTokens) % 8 # 0
    /\ Len(dec.tokens) > Len(encTokens) + 8
    /\ dec.out = inputData

\* C4: padding alignment. Once EncodeLZSS has returned, the number of
\* bytes it wrote is a multiple of 16 if dontPad = 0, and also if
\* exactPad = 1 (with either dontPad).
C4_Aligned ==
    (pc \in {"encoded", "decode", "done"} /\ (dontPad = 0 \/ exactPad = 1))
        => Len(outFile) % PAD_UNIT = 0

\* exact padding alone, the input ending on a full group of 8 tokens, and
\* padding blocks appended
C4_Witness ==
    /\ pc = "encoded" /\ exactPad = 1 /\ dontPad = 1
    /\ Len(encTokens) = 8
    /\ encodedData = <<>>
    /\ Len(outFile) = PAD_UNIT

\* exact padding alone, the padding tokens filling the last group without
\* reaching the boundary, and padding blocks appended after it
C4_WitnessGroupFilled ==
    /\ pc = "encoded" /\ exactPad = 1 /\ dontPad = 1
    /\ Len(encTokens) % 8 # 0
    /\ flagPos = 0
    /\ Len(encodedData) % 2 = 0
    /\ Len(outFile) % PAD_UNIT = 0

LastEncToken == encTokens[Len(encTokens)]

\* the wire bytes of the last token: the end of the pending group, or of
\* the file if that token completed a group
LastWire(n) ==
    LET from == IF encodedData # <<>> THEN encodedData ELSE outFile
    IN SubSeq(from, Len(from) - n + 1, Len(from))

\* C5: length-cap invariant. Every match token emitted while consuming
\* input has 3 <= length <= 63 and 3 <= distance <= 1023, and its first wire
\* byte (length << 2) | (distance >> 8) fits in 8 bits: the two bytes
\* written give back the length and the distance.
C5_TokenRange ==
    /\ \A i \in EncTokenIndex :
          encTokens[i].match =>
             /\ 3 <= encTokens[i].length /\ encTokens[i].length <= 63
             /\ 3 <= encTokens[i].offset /\ encTokens[i].offset <= 1023
    /\ (pc = "encode" /\ encTokens # <<>> /\ LastEncToken.match) =>
          LET w == LastWire(2)
          IN /\ w[1] = LastEncToken.length * 4 + (LastEncToken.offset \div 256)
             /\ w[1] \div 4 = LastEncToken.length
             /\ (w[1] % 4) * 256 + w[2] = LastEncToken.offset

\* a match of the largest length and a match of the largest distance
C5_Witness ==
    /\ pc = "encoded"
    /\ \E i \in EncTokenIndex : encTokens[i].match /\ encTokens[i].length = 63
    /\ \E i \in EncTokenIndex : encTokens[i].match /\ encTokens[i].offset = 1023

\* the bytes the decoder had written before its last token
DecWrittenBefore == Len(dec.out) - dec.code.length

\* C6: self-overlap invariant. Every match token EncodeLZSS emits has
\* length <= distance and distance <= the number of input bytes consumed
\* before it; and decoding the encoder's output, every window slot a match
\* reads has been written by the decoder (it no longer holds the priming
\* value 0x11 of line 602).
C6_SelfOverlap ==
    /\ \A i \in EncTokenIndex :
          encTokens[i].match =>
             /\ encTokens[i].length <= encTokens[i].offset
             /\ encTokens[i].offset <= encTokens[i].pos
    /\ (pc \in {"decode", "done"}) =>
          \A k \in dec.readIdx :
             DecWrittenBefore >= WINDOW_SIZE \/ k < DecWrittenBefore

\* the decoder has just copied a match whose length is its distance and
\* whose distance is all that had been written
C6_Witness ==
    /\ pc = "decode"
    /\ dec.readIdx # {}
    /\ dec.code.length = dec.code.offset
    /\ DecWrittenBefore = dec.code.offset
    /\ \E i \in EncTokenIndex :
          /\ encTokens[i].match
          /\ encTokens[i].length = encTokens[i].offset
          /\ encTokens[i].offset = encTokens[i].pos

\* the number of bytes at p that equal those d back, counted up to
\* min(remaining, d) and no further than 64: 64 stands for "more than 63"
RECURSIVE RawMatch(_, _, _, _, _)
RawMatch(data, p, d, j, lim) ==
    IF j < lim /\ data[p + j + 1] = data[p - d + j + 1]
    THEN RawMatch(data, p, d, j + 1, lim)
    ELSE j

RawLens(data, p) ==
    LET rem == Len(data) - p
        top == IF p < 1023 THEN p ELSE 1023
    IN [d \in 3..top |->
          LET m == IF rem < d THEN rem ELSE d
          IN RawMatch(data, p, d, 0, IF m < 64 THEN m ELSE 64)]

Cap63(n) == IF n > 63 THEN 63 ELSE n

\* the emitted distance is the smallest candidate whose recorded length
\* (capped at 63) is the emitted length
SmallestOfEqualLength(t, lens) ==
    /\ t.offset \in DOMAIN lens
    /\ Cap63(lens[t.offset]) = t.length
    /\ \A d \in DOMAIN lens : Cap63(lens[d]) = t.length => t.offset <= d

\* C7 as stated: at every position, among all candidate distances whose
\* recorded match length (capped at 63) equals the emitted length, the
\* emitted distance is the smallest.
C7_SmallestDistance ==
    (pc = "encode" /\ encTokens # <<>> /\ LastEncToken.match) =>
        SmallestOfEqualLength(LastEncToken,
                              RawLens(inputData, LastEncToken.pos))

\* C7 amended: the same, at every position where no candidate matches more
\* than 63 bytes.
C7_SmallestDistanceUncapped ==
    (pc = "encode" /\ encTokens # <<>> /\ LastEncToken.match) =>
        LET lens == RawLens(inputData, LastEncToken.pos)
        IN (\A d \in DOMAIN lens : lens[d] <= 63) =>
              SmallestOfEqualLength(LastEncToken, lens)

\* a tie: two candidates with the emitted length, none above 63
C7_Witness ==
    /\ pc = "encode" /\ encTokens # <<>> /\ LastEncToken.match
    /\ LET lens == RawLens(inputData, LastEncToken.pos)
       IN /\ \A d \in DOMAIN lens : lens[d] <= 63
          /\ \E d \in DOMAIN lens :
                d > LastEncToken.offset /\ lens[d] = LastEncToken.length

\* an input that repeats a 3-byte pattern at least twice, of period 3
PatternInput(data) ==
    /\ Len(data) >= 6
    /\ \A i \in 4..Len(data) : data[i] = data[i - 3]
    /\ ~(data[1] = data[2] /\ data[2] = data[3])

\* C8 as stated: for an input repeating a 3-byte pattern, literals are
\* emitted only for the first 3 bytes, a match is emitted as soon as 3
\* bytes of history exist, and every match has distance 3.
C8_DistanceIsPeriod ==
    PatternInput(inputData) =>
        \A i \in EncTokenIndex :
            /\ encTokens[i].match <=> encTokens[i].pos >= 3
            /\ encTokens[i].match => encTokens[i].offset = 3

\* C8 amended: for such an input the first 3 bytes are literals, the token
\* at position 3 is the match (distance 3, length 3), later literals occur
\* only where fewer than 3 bytes remain, and the distance of every match
\* is a multiple of the period (3, 6, 12, ... as the history grows).
C8_DistanceMultipleOfPeriod ==
    PatternInput(inputData) =>
        \A i \in EncTokenIndex :
            LET t == encTokens[i]
            IN /\ t.pos < 3 => ~t.match
               /\ t.pos = 3 => t.match /\ t.offset = 3 /\ t.length = 3
               /\ ~t.match => t.pos < 3 \/ Len(inputData) - t.pos < 3
               /\ t.match => t.offset >= 3 /\ t.offset % 3 = 0

\* the pattern input is encoded, with a match at a larger distance than 3
C8_Witness ==
    /\ pc = "encoded"
    /\ PatternInput(inputData)
    /\ \E i \in EncTokenIndex : encTokens[i].match /\ encTokens[i].offset > 3
    /\ encTokens[4].match /\ encTokens[4].offset = 3

\* the wire bytes a token takes: 2 for a match, 1 for a literal
WireLen(t) == IF t.match THEN 2 ELSE 1

RECURSIVE WireSum(_, _)
WireSum(toks, n) == IF n = 0 THEN 0 ELSE WireLen(toks[n]) + WireSum(toks, n - 1)

\* where the wire bytes of token i start (0-based) in a stream of 8-token
\* groups, each led by one flag byte
TokenStart(toks, i) == ((i - 1) \div 8) + 1 + WireSum(toks, i - 1)

\* where the flag byte of token i's group lies (0-based)
FlagOffset(toks, i) == TokenStart(toks, i - ((i - 1) % 8)) - 1

\* is bit 0x80 >> k of flag byte b set
FlagBit(b, k) == (b \div (2 ^ (7 - k))) % 2 = 1

\* the stream written so far, the pending group included
EncodedSoFar ==
    IF pc = "encode" /\ encodedData # <<>>
    THEN outFile \o <<flags>> \o encodedData
    ELSE outFile

\* C9: flag-group framing. While encoding, and afterwards if there is no
\* padding, the stream is a sequence of groups of 8 tokens (the last maybe
\* shorter), each a flag byte followed by the tokens' wire bytes: bit
\* 0x80 >> k of the flag byte is 1 exactly if the k-th token of the group
\* is a match (2 wire bytes), 0 if it is a literal (1 wire byte), so that a
\* full group takes 1 + 8 + (number of 1 bits) bytes; a group is written
\* to the file exactly when its 8th token is emitted. DecodeLZSS reads a
\* new flag byte exactly after every 8 tokens and takes the k-th token of
\* a group with bit k: it decodes the same kinds of token at the same
\* places.
C9_Framing ==
    LET n == Len(encTokens)
        file == EncodedSoFar
        unpadded == pc = "encode" \/ (dontPad = 1 /\ exactPad = 0)
    IN
    /\ pc = "encode" =>
          /\ Len(outFile) = (n \div 8) + WireSum(encTokens, n - (n % 8))
          /\ flagPos = 2 ^ (7 - (n % 8))
    /\ unpadded =>
          /\ Len(file) = ((n + 7) \div 8) + WireSum(encTokens, n)
          /\ \A i \in EncTokenIndex :
                LET t == encTokens[i]
                    at == TokenStart(encTokens, i)
                    flag == file[FlagOffset(encTokens, i) + 1]
                IN /\ FlagBit(flag, (i - 1) % 8) <=> t.match
                   /\ ~t.match => file[at + 1] = inputData[t.pos + 1]
                   /\ t.match =>
                         /\ file[at + 1] = t.length * 4 + (t.offset \div 256)
                         /\ file[at + 2] = t.offset % 256
          /\ n % 8 # 0 =>
                \A k \in (n % 8)..7 :
                   ~FlagBit(file[FlagOffset(encTokens, n) + 1], k)
    /\ (pc \in {"decode", "done"} /\ unpadded) =>
          /\ Len(dec.tokens) <= n
          /\ pc = "done" => Len(dec.tokens) = n
          /\ \A i \in DecTokenIndex :
                /\ dec.tokens[i].match = encTokens[i].match
                /\ dec.tokens[i].bit = (i - 1) % 8
                /\ dec.tokens[i].end
                      = TokenStart(encTokens, i) + WireLen(encTokens[i])

\* more than one group, the last one partial, matches and literals, all
\* decoded
C9_Witness ==
    /\ pc = "done" /\ dontPad = 1 /\ exactPad = 0
    /\ Len(encTokens) > 8
    /\ Len(encTokens) % 8 # 0
    /\ \E i \in 1..8 : encTokens[i].match
    /\ \E i \in 1..8 : ~encTokens[i].match
    /\ Len(dec.tokens) = Len(encTokens)

\* DecodeLZSS run to its end on a stream
RECURSIVE DecodeAll(_)
DecodeAll(d) == IF d.halted THEN d ELSE DecodeAll(DecodeIter(d, 0))

RECURSIVE Concat(_)
Concat(ss) == IF ss = <<>> THEN <<>> ELSE Head(ss) \o Concat(Tail(ss))

IsPrefix(a, b) == Len(a) <= Len(b) /\ a = SubSeq(b, 1, Len(a))

TokenEndsBy(n, t) == t.end <= n

\* the tokens of `toks` that end within the first n bytes of the stream
TokensWithin(toks, n) ==
    [i \in 1..Cardinality({j \in 1..Len(toks) : TokenEndsBy(n, toks[j])})
        |-> toks[i]]

\* C10: truncated stream. DecodeLZSS on a prefix S' of a stream S (cut at
\* any byte) stops: it never reads past the end of S' and every token it
\* decodes has consumed at least one byte. When it has stopped, the
\* tokens it has decoded are exactly the tokens of S that lie entirely in
\* S', its output is their bytes (a prefix of the output for S), and
\* nothing is emitted for an incomplete token. Every index used on
\* slidingWindow is in [0,1022] and on the staging buffer in [0,63].
C10_Truncated ==
    (pc \in {"decode", "done"}) =>
        /\ dec.readIdx \subseteq 0..1022
        /\ dec.writeIdx \subseteq 0..1022
        /\ dec.stageIdx \subseteq 0..63
        /\ dec.pos <= Len(dec.inFile)
        /\ Len(dec.tokens) <= dec.pos
        /\ pc = "done" =>
              LET full == DecodeAll(DecStart(outFile))
                  kept == TokensWithin(full.tokens, Len(dec.inFile))
              IN /\ dec.halted
                 /\ dec.tokens = kept
                 /\ dec.out = Concat([i \in 1..Len(kept) |-> kept[i].bytes])
                 /\ IsPrefix(dec.out, full.out)

\* a stream cut between the two wire bytes of a match, after some output,
\* where the whole stream decodes to more
C10_Witness ==
    /\ pc = "done"
    /\ Len(dec.inFile) < Len(outFile)
    /\ dec.code.offset = EOF
    /\ dec.out # <<>>
    /\ Len(DecodeAll(DecStart(outFile)).out) > Len(dec.out)

\* a malformed match at the start of the stream (length 24, distance 12):
\* its source wraps from the last slots of the window to the first
C10_WitnessWrap ==
    /\ pc = "decode"
    /\ dec.code.length = 24
    /\ dec.code.offset = 12
    /\ dec.readIdx = (1011..1022) \cup (0..11)
    /\ dec.stageIdx = 0..23

\* the candidates at p whose raw match length is more than 63
Exceeding(lens) == {d \in DOMAIN lens : lens[d] > 63}

\* the largest raw match length at p, 0 when there is no candidate
MaxRaw(lens) ==
    IF DOMAIN lens = {} THEN 0
    ELSE CHOOSE n \in {lens[d] : d \in DOMAIN lens} :
            \A d \in DOMAIN lens : lens[d] <= n

\* C11: clamp and early exit. At every input position where some candidate
\* distance has a raw match length (counted up to min(remaining, d)) above
\* 63, EncodeLZSS emits a match of length exactly 63 whose distance is the
\* smallest candidate with a raw length above 63, the scan has been left at
\* that candidate, and the encoder resumes 63 bytes further on; where no
\* candidate exceeds 63, the emitted length is the largest raw length over
\* all the candidates, or the token is a literal when that is below 3.
C11_ClampEarlyExit ==
    (pc = "encode" /\ encTokens # <<>>) =>
        LET t == LastEncToken
            lens == RawLens(inputData, t.pos)
            over == Exceeding(lens)
        IN IF over # {}
           THEN LET first == CHOOSE d \in over : \A e \in over : d <= e
                IN /\ t.match
                   /\ t.length = 63
                   /\ t.offset = first
                   /\ Search(inputData, t.pos, 3, first, SearchStart).stop
                   /\ inputPos = t.pos + 63
           ELSE IF MaxRaw(lens) >= 3
           THEN /\ t.match
                /\ t.length = MaxRaw(lens)
                /\ inputPos = t.pos + t.length
           ELSE /\ ~t.match
                /\ inputPos = t.pos + 1

\* the scan has stopped at a candidate above 63 bytes although a smaller
\* distance matched exactly 63 bytes and larger ones match more than 63
C11_Witness ==
    /\ pc = "encode" /\ encTokens # <<>>
    /\ LastEncToken.match /\ LastEncToken.length = 63
    /\ inputPos = LastEncToken.pos + 63
    /\ LET lens == RawLens(inputData, LastEncToken.pos)
       IN /\ lens[LastEncToken.offset] > 63
          /\ \E d \in DOMAIN lens : d < LastEncToken.offset /\ lens[d] = 63
          /\ \E d \in DOMAIN lens : d > LastEncToken.offset /\ lens[d] > 63

\* no candidate above 63: the emitted length is the largest raw length,
\* reached by a candidate that is not the first to match 3 bytes
C11_WitnessNoClamp ==
    /\ pc = "encode" /\ encTokens # <<>> /\ LastEncToken.match
    /\ LET lens == RawLens(inputData, LastEncToken.pos)
       IN /\ Exceeding(lens) = {}
          /\ LastEncToken.length = MaxRaw(lens)
          /\ \E d \in DOMAIN lens :
                d < LastEncToken.offset /\ lens[d] >= 3
                                        /\ lens[d] < LastEncToken.length

\* the search of EncodeLZSS with both rejection checks removed: every
\* candidate is counted, and the update and the early exit are the same
PlainBody(data, pos, searchOffset, st) ==
    IF st.stop THEN st
    ELSE
      LET maxCheck == MaxCheck(Len(data) - pos, searchOffset)
          matchLen == CountMatch(data, pos, pos - searchOffset, maxCheck)
          better == Better(matchLen, st.length)
      IN
      IF ExceedsMax(matchLen)
      THEN [length |-> MAX_LENGTH, offset |-> searchOffset, stop |-> TRUE]
      ELSE [length |-> IF better THEN matchLen ELSE st.length,
            offset |-> IF better THEN searchOffset ELSE st.offset,
            stop |-> FALSE]

RECURSIVE PlainSearch(_, _, _, _, _)
PlainSearch(data, pos, lo, hi, st) ==
    IF lo > hi \/ st.stop THEN st
    ELSE IF lo = hi THEN PlainBody(data, pos, lo, st)
    ELSE LET mid == (lo + hi) \div 2
         IN PlainSearch(data, pos, mid + 1, hi,
                        PlainSearch(data, pos, lo, mid, st))

\* the token the rejection-free search emits at pos
PlainToken(data, pos) ==
    LET r == PlainSearch(data, pos, 3, SearchLimit(pos), SearchStart)
        best == [length |-> Cap63(r.length), offset |-> r.offset]
    IN [pos |-> pos, match |-> IsMatch(best),
        length |-> best.length, offset |-> best.offset]

\* the candidates at the last token's position that the first check skips
SkippedFirst(data, t) ==
    {d \in 3..SearchLimit(t.pos) : RejectFirst(data, t.pos, t.pos - d)}

\* those the second check skips when the best length so far is b
SkippedBest(data, t, b) ==
    {d \in 3..SearchLimit(t.pos) :
        /\ ~RejectFirst(data, t.pos, t.pos - d)
        /\ RejectBest(data, t.pos, t.pos - d, b, Len(data) - t.pos)}

\* C12: the quick rejections are result-neutral. Every token EncodeLZSS
\* emits is the token that the same search with both rejection checks
\* removed emits at the same position (so the two token sequences are
\* identical); a candidate skipped by its first byte has raw match length
\* 0, and a candidate skipped by the second check at a best length b (any
\* value from the initial 2 to the final best length) has a raw match
\* length of at most b, hence neither above the best nor above 63.
C12_RejectionNeutral ==
    (pc = "encode" /\ encTokens # <<>>) =>
        LET t == LastEncToken
            lens == RawLens(inputData, t.pos)
        IN /\ t = PlainToken(inputData, t.pos)
           /\ \A d \in SkippedFirst(inputData, t) : lens[d] = 0
           /\ \A b \in 2..t.length :
                 \A d \in SkippedBest(inputData, t, b) : lens[d] <= b

\* a match was emitted although a smaller distance, scanned while the best
\* length was still 2, had a matching first byte and was skipped by the
\* second check
C12_Witness ==
    /\ pc = "encode" /\ encTokens # <<>> /\ LastEncToken.match
    /\ LET lens == RawLens(inputData, LastEncToken.pos)
       IN \E d \in SkippedBest(inputData, LastEncToken, 2) :
             /\ d < LastEncToken.offset
             /\ \A e \in DOMAIN lens : e < d => lens[e] < 3

\* a match was emitted at a position where a candidate was skipped by its
\* first byte
C12_WitnessFirst ==
    /\ pc = "encode" /\ encTokens # <<>> /\ LastEncToken.match
    /\ SkippedFirst(inputData, LastEncToken) # {}

\* the decoder has just processed a match token
C13_MatchStep ==
    /\ pc = "decode"
    /\ Len(dec'.tokens) = Len(dec.tokens) + 1
    /\ dec'.tokens[Len(dec'.tokens)].match

\* what the token did to the output, the window and nextChar
C13_Effect ==
    LET t == dec'.tokens[Len(dec'.tokens)]
        before == dec.slidingWindow
        byte(i) == before[(dec.nextChar - t.offset + i) % 1023]
    IN /\ t.offset \in 0..1023
       /\ t.length \in 0..63
       /\ dec'.out = dec.out \o [i \in 1..t.length |-> byte(i - 1)]
       /\ \A i \in 0..(t.length - 1) :
             dec'.slidingWindow[(dec.nextChar + i) % 1023] = byte(i)
       /\ \A k \in 0..1022 :
             (k - dec.nextChar) % 1023 >= t.length =>
                dec'.slidingWindow[k] = before[k]
       /\ dec'.nextChar = (dec.nextChar + t.length) % 1023
       /\ t.length = 0 =>
             /\ dec'.out = dec.out
             /\ dec'.slidingWindow = before
             /\ dec'.nextChar = dec.nextChar

\* C13: decoder two-phase copy. For every decoder state and every match
\* token (distance 0..1023, length 0..63, malformed ones included), the
\* i-th emitted byte is what slidingWindow[(nextChar - distance + i) mod
\* 1023] held before the token, the same bytes are stored at
\* slidingWindow[(nextChar + i) mod 1023], nextChar advances by the length
\* mod 1023 and every other slot is unchanged; a token of length 0 emits
\* nothing and leaves slidingWindow and nextChar unchanged.
C13_TwoPhaseCopy == [][C13_MatchStep => C13_Effect]_vars

\* a match longer than its distance whose source slots are also slots it
\* stores, whose destination passes the end of the window, and whose
\* bytes are not all the same
C13_Witness ==
    /\ pc = "decode"
    /\ dec.tokens # <<>>
    /\ dec.tokens[Len(dec.tokens)].match
    /\ dec.code.length > dec.code.offset
    /\ dec.code.offset > 0
    /\ dec.readIdx \cap dec.writeIdx # {}
    /\ {1022, 0} \subseteq dec.writeIdx
    /\ \E i, j \in 1..dec.code.length :
          dec.tokens[Len(dec.tokens)].bytes[i] #
             dec.tokens[Len(dec.tokens)].bytes[j]

\* a match of length 0 after some output: nothing read, nothing stored
C13_WitnessZero ==
    /\ pc = "decode"
    /\ dec.tokens # <<>>
    /\ dec.tokens[Len(dec.tokens)].match
    /\ dec.code.length = 0
    /\ dec.out # <<>>
    /\ dec.writeIdx = {}

\* a match of distance 0 (malformed: it reads the slots it stores)
C13_WitnessDistance0 ==
    /\ pc = "decode"
    /\ dec.tokens # <<>>
    /\ dec.tokens[Len(dec.tokens)].match
    /\ dec.code.length > 0
    /\ dec.code.offset = 0
    /\ dec.readIdx = dec.writeIdx

\* a match of distance 1023, the size of the window
C13_WitnessDistance1023 ==
    /\ pc = "decode"
    /\ dec.tokens # <<>>
    /\ dec.tokens[Len(dec.tokens)].match
    /\ dec.code.length > 0
    /\ dec.code.offset = 1023
    /\ dec.readIdx = dec.writeIdx

====
